---- MODULE Spec2Model ----
(***************************************************************************)
(* Model of FRONTEND/api-client.js: the module-scoped session              *)
(* (authToken, currentUser), its copy in localStorage, the generic         *)
(* request function apiCall and the endpoint wrappers built on it.         *)
(*                                                                         *)
(* One step of the model is one run-to-completion job of the browser's     *)
(* event loop: a synchronous call from the page (initAuth, logoutUser, the *)
(* part of a wrapper up to its `await fetch`), or the resumption of a      *)
(* suspended call when its response (or the rejection of fetch) arrives,   *)
(* which runs the rest of apiCall and of the awaiting wrapper before any   *)
(* other event is handled.                                                 *)
(***************************************************************************)
EXTENDS Integers, Sequences, FiniteSets, TLC

VARIABLES
    authToken,      \* let authToken                       (line 7)
    currentUser,    \* let currentUser                     (line 6)
    localStorage,   \* the two keys the module persists
    href,           \* window.location.href
    logoutBtn,      \* textContent of #logoutBtn, Null when the page has none
    loaded,         \* DOMContentLoaded has fired
    calls,          \* the suspended calls, one per slot
    last,           \* what the most recent job did and returned
    loginGrant      \* history: the token login last resolved true with

vars ==
    <<authToken, currentUser, localStorage, href, logoutBtn, loaded, calls, last,
      loginGrant>>

-----------------------------------------------------------------------------
(* Bounds of the exploration.                                              *)

MaxId == 2          \* path parameters are drawn from 1..MaxId
MaxInFlight == 2    \* calls suspended at the same time in SpecConc

Ids == 1..MaxId

-----------------------------------------------------------------------------
(* JavaScript values.  A value is a record tagged with its type; an object *)
(* is a record whose other fields are its own properties.                  *)

Undefined == [t |-> "undefined"]
Null == [t |-> "null"]
Str(s) == [t |-> "string", v |-> s]
Num(n) == [t |-> "number", v |-> n]
Bool(b) == [t |-> "boolean", v |-> b]

\* ToBoolean, as applied by `if (x)` and `a && b`.
Truthy(x) ==
    CASE x.t = "undefined" -> FALSE
      [] x.t = "null"      -> FALSE
      [] x.t = "string"    -> x.v # ""
      [] x.t = "number"    -> x.v # 0
      [] x.t = "boolean"   -> x.v
      [] OTHER             -> TRUE

\* Property read x.k: undefined when the object has no such property.
Prop(x, k) == IF x.t = "object" /\ k \in DOMAIN x THEN x[k] ELSE Undefined

\* ToString, as applied by template literals, `+` and Storage.setItem.
ToStr(x) ==
    CASE x.t = "undefined" -> "undefined"
      [] x.t = "null"      -> "null"
      [] x.t = "string"    -> x.v
      [] x.t = "number"    -> ToString(x.v)
      [] x.t = "boolean"   -> IF x.v THEN "true" ELSE "false"
      [] OTHER             -> "[object Object]"

\* Property order of the objects of the model (JSON.stringify keeps
\* insertion order; every object here is built in this order).
KeyOrder == <<"access", "user", "detail", "email", "password", "name", "role">>

RECURSIVE JSONstringify(_), Members(_, _, _)

\* The text of the properties KeyOrder[i..] of object x; properties whose
\* value is undefined are skipped.
Members(x, i, first) ==
    IF i > Len(KeyOrder) THEN ""
    ELSE LET k == KeyOrder[i]
             s == IF k \in DOMAIN x THEN JSONstringify(x[k]) ELSE Undefined
         IN  IF s.t = "undefined" THEN Members(x, i + 1, first)
             ELSE (IF first THEN "" ELSE ",") \o "\"" \o k \o "\":" \o s.v
                  \o Members(x, i + 1, FALSE)

\* JSON.stringify(x): a string value, or undefined for undefined.
JSONstringify(x) ==
    CASE x.t = "undefined" -> Undefined
      [] x.t = "null"      -> Str("null")
      [] x.t = "string"    -> Str("\"" \o x.v \o "\"")
      [] x.t = "number"    -> Str(ToString(x.v))
      [] x.t = "boolean"   -> Str(IF x.v THEN "true" ELSE "false")
      [] OTHER             -> Str("{" \o Members(x, 1, TRUE) \o "}")

-----------------------------------------------------------------------------
(* The values the environment supplies.                                    *)

UserA == [t |-> "object", email |-> Str("a@x.com")]
UserB == [t |-> "object", email |-> Str("b@x.com")]

AuthBody(access, user) == [t |-> "object", access |-> access, user |-> user]

\* Bodies a backend may answer with, as JavaScript values.
JsonBodies ==
    { AuthBody(Str("T1"), UserA),
      AuthBody(Str("T2"), UserB),
      AuthBody(Str("T3"), Null),
      [t |-> "object", access |-> Str("T4")],
      AuthBody(Str(""), UserA),
      [t |-> "object", detail |-> Str("x")],
      Null }

\* Every value whose JSON text occurs in the model.
JsonValues ==
    JsonBodies \cup {UserA, UserB, Null, Str(""), Num(0), Bool(FALSE)}

\* The texts JSON.parse accepts, each with the value it denotes.
JsonTexts == {JSONstringify(v).v : v \in JsonValues}
ParseTable == [text \in JsonTexts |-> CHOOSE v \in JsonValues : JSONstringify(v) = Str(text)]

\* JSON.parse(text): the value, or a SyntaxError.
JSONparse(text) ==
    IF text \in JsonTexts
    THEN [ok |-> TRUE, value |-> ParseTable[text]]
    ELSE [ok |-> FALSE, message |-> "Unexpected token in JSON"]

BodyTexts == {JSONstringify(v).v : v \in JsonBodies} \cup {"<html>"}

Statuses == {200, 401, 500}

\* response.ok
Ok(status) == status >= 200 /\ status <= 299

\* The `data` arguments callers pass; undefined is an omitted argument.
DataVals == {Undefined, Null, [t |-> "object", name |-> Str("X")], Num(0), Bool(FALSE), Str("")}

-----------------------------------------------------------------------------
(* localStorage: getItem returns null for a key that is not stored, and    *)
(* setItem stores the string form of whatever it is given.                 *)

getItem(store, key) == store[key]
setItem(store, key, value) == [store EXCEPT ![key] = Str(ToStr(value))]
removeItem(store, key) == [store EXCEPT ![key] = Null]

\* The state the functions of the module read and write, as one record.
Mem ==
    [authToken |-> authToken, currentUser |-> currentUser,
     localStorage |-> localStorage, href |-> href, logoutBtn |-> logoutBtn]

-----------------------------------------------------------------------------
(* Session functions (lines 10-18, 88-100).                                *)

\* function updateUIAfterLogin()
updateUIAfterLogin(m) ==
    IF m.logoutBtn.t # "null" /\ Truthy(m.currentUser)
    THEN [m EXCEPT !.logoutBtn =
             Str("Logout (" \o ToStr(Prop(m.currentUser, "email")) \o ")")]
    ELSE m

\* function initAuth(): the memory it leaves, and whether it threw.
initAuth(m) ==
    LET token == getItem(m.localStorage, "access_token")
        user == getItem(m.localStorage, "user")
    IN  IF Truthy(token) /\ Truthy(user)
        THEN LET m1 == [m EXCEPT !.authToken = token]
                 p == JSONparse(user.v)
             IN  IF p.ok
                 THEN [mem |-> updateUIAfterLogin([m1 EXCEPT !.currentUser = p.value]),
                       threw |-> FALSE]
                 ELSE [mem |-> m1, threw |-> TRUE]
        ELSE [mem |-> m, threw |-> FALSE]

\* A logoutUser that forgets the persisted copy.
logoutUserMemoryOnly(m) == [m EXCEPT !.authToken = Null, !.currentUser = Null]

\* function logoutUser()
logoutUser(m) ==
    [m EXCEPT !.authToken = Null,
              !.currentUser = Null,
              !.localStorage = removeItem(removeItem(@, "access_token"), "user")]

-----------------------------------------------------------------------------
(* apiCall (lines 20-57), in its two halves: up to `await fetch`, and from *)
(* the arrival of the response to its return.                              *)

API_BASE == "/api"

NoEntries == [k \in {} |-> ""]

\* An apiCall that attaches the header whether or not a token is held.
AuthorizationAlways(token) == "Authorization" :> ("Bearer " \o ToStr(token))

\* Lines 28-30: the Authorization header for the token held.
AuthorizationHeader(token) ==
    IF Truthy(token) THEN "Authorization" :> ("Bearer " \o ToStr(token)) ELSE NoEntries

\* Lines 32-34: options.body for the data given.
BodyOption(data) ==
    IF Truthy(data) THEN "body" :> JSONstringify(data).v ELSE NoEntries

\* A parameter with a default value takes it when the argument is undefined.
Default(arg, dflt) == IF arg.t = "undefined" THEN dflt ELSE arg

\* Lines 20-37: the request apiCall hands to fetch.
apiCallRequest(m, endpoint, methodArg, dataArg) ==
    LET method == Default(methodArg, Str("GET"))
        data == Default(dataArg, Null)
    IN  [url |-> API_BASE \o endpoint,
         options |-> [method |-> method.v,
                      headers |-> ("Content-Type" :> "application/json")
                                  @@ AuthorizationHeader(m.authToken)]
                     @@ BodyOption(data)]

\* A catch block that logs the error and tells the user nothing.
CaughtSilently(m, message) == [mem |-> m, result |-> Null, errors |-> 1, alerts |-> <<>>]

\* Lines 52-56: the catch block.
Caught(m, message) ==
    [mem |-> m, result |-> Null, errors |-> 1,
     alerts |-> <<"Connection error: " \o message>>]

\* A triage that logs the user out on every unsuccessful status.
TriageLogoutOnError(m, status, result) ==
    IF ~Ok(status)
    THEN [mem |-> [logoutUser(m) EXCEPT !.href = "/login.html"],
          result |-> Null, errors |-> 0, alerts |-> <<>>]
    ELSE [mem |-> m, result |-> result, errors |-> 0, alerts |-> <<>>]

\* Lines 40-51: the response triage once the body has been parsed.
Triage(m, status, result) ==
    IF status = 401
    THEN [mem |-> [logoutUser(m) EXCEPT !.href = "/login.html"],
          result |-> Null, errors |-> 0, alerts |-> <<>>]
    ELSE IF ~Ok(status)
    THEN [mem |-> m, result |-> Null, errors |-> 1, alerts |-> <<>>]
    ELSE [mem |-> m, result |-> result, errors |-> 0, alerts |-> <<>>]

\* Lines 36-56: what apiCall does when `arrival` ends its await: a rejection
\* of fetch, or a response whose body response.json() then parses.
apiCallResume(m, arrival) ==
    IF arrival.kind = "reject"
    THEN Caught(m, arrival.message)
    ELSE LET p == JSONparse(arrival.body)
         IN  IF p.ok THEN Triage(m, arrival.status, p.value)
             ELSE Caught(m, p.message)

-----------------------------------------------------------------------------
(* The endpoint wrappers (lines 60-86, 102-207): the arguments each passes *)
(* to apiCall.  An argument a wrapper leaves out is undefined.             *)

\* A wrapper helper that sends every write as a POST.
SendAsPost(endpoint, method, data) ==
    [endpoint |-> endpoint, method |-> Str("POST"), data |-> data]

Get(endpoint) == [endpoint |-> endpoint, method |-> Undefined, data |-> Undefined]
Send(endpoint, method, data) == [endpoint |-> endpoint, method |-> Str(method), data |-> data]

Wrappers ==
    { "register", "login",
      "getAllHostels", "getHostelDetail", "addHostel", "updateHostel", "getMyHostels",
      "getHostelRooms", "addRoom", "updateRoom",
      "bookHostel", "getMyBookings", "getOwnerBookings", "approveBooking", "rejectBooking",
      "reportIssue", "getOwnerIssues", "resolveIssue",
      "sendNotice", "getNotices",
      "getMyPayments", "makePayment", "recordPayment", "getHostelPayments",
      "getStudentDashboard", "getOwnerDashboard", "getHostelStats" }

\* The call of apiCall that wrapper w makes with arguments a.
WrapperCall(w, a) ==
    LET id == ToStr(a.id) IN
    CASE w = "register" ->
           Send("/auth/register/", "POST",
                [t |-> "object", email |-> a.email, password |-> a.password,
                 name |-> a.name, role |-> a.role])
      [] w = "login" ->
           Send("/auth/login/", "POST",
                [t |-> "object", email |-> a.email, password |-> a.password])
      [] w = "getAllHostels"       -> Get("/hostels/")
      [] w = "getHostelDetail"     -> Get("/hostels/" \o id \o "/")
      [] w = "addHostel"           -> Send("/hostels/add/", "POST", a.data)
      [] w = "updateHostel"        -> Send("/hostels/" \o id \o "/update/", "PUT", a.data)
      [] w = "getMyHostels"        -> Get("/hostels/my/")
      [] w = "getHostelRooms"      -> Get("/rooms/hostel/" \o id \o "/")
      [] w = "addRoom"             -> Send("/rooms/add/", "POST", a.data)
      [] w = "updateRoom"          -> Send("/rooms/" \o id \o "/update/", "PUT", a.data)
      [] w = "bookHostel"          -> Send("/bookings/book/", "POST", a.data)
      [] w = "getMyBookings"       -> Get("/bookings/my/")
      [] w = "getOwnerBookings"    -> Get("/bookings/owner/" \o id \o "/")
      [] w = "approveBooking"      -> Send("/bookings/" \o id \o "/approve/", "POST", a.data)
      [] w = "rejectBooking"       -> Send("/bookings/" \o id \o "/reject/", "POST", a.data)
      [] w = "reportIssue"         -> Send("/issues/report/", "POST", a.data)
      [] w = "getOwnerIssues"      -> Get("/issues/owner/" \o id \o "/")
      [] w = "resolveIssue"        -> Send("/issues/" \o id \o "/resolve/", "POST", a.data)
      [] w = "sendNotice"          -> Send("/notices/send/", "POST", a.data)
      [] w = "getNotices"          -> Get("/notices/" \o id \o "/")
      [] w = "getMyPayments"       -> Get("/payments/my/")
      [] w = "makePayment"         -> Send("/payments/make/", "POST", a.data)
      [] w = "recordPayment"       -> Send("/payments/record/", "POST", a.data)
      [] w = "getHostelPayments"   -> Get("/payments/hostel/" \o id \o "/")
      [] w = "getStudentDashboard" -> Get("/dashboard/student/")
      [] w = "getOwnerDashboard"   -> Get("/dashboard/owner/")
      [] w = "getHostelStats"      -> Get("/analytics/hostel/" \o id \o "/")

\* Lines 64-71: register, from the result of its apiCall to its return.
registerResume(m, result) ==
    IF Truthy(result) /\ Truthy(Prop(result, "access"))
    THEN LET token == Prop(result, "access")
             user == Prop(result, "user")
         IN  [mem |-> [m EXCEPT !.authToken = token,
                                !.currentUser = user,
                                !.localStorage =
                                    setItem(setItem(@, "access_token", token),
                                            "user", JSONstringify(user))],
              ret |-> Bool(TRUE)]
    ELSE [mem |-> m, ret |-> Bool(FALSE)]

\* Lines 78-85: login, from the result of its apiCall to its return.
loginResume(m, result) ==
    IF Truthy(result) /\ Truthy(Prop(result, "access"))
    THEN LET token == Prop(result, "access")
             user == Prop(result, "user")
         IN  [mem |-> [m EXCEPT !.authToken = token,
                                !.currentUser = user,
                                !.localStorage =
                                    setItem(setItem(@, "access_token", token),
                                            "user", JSONstringify(user))],
              ret |-> Bool(TRUE)]
    ELSE [mem |-> m, ret |-> Bool(FALSE)]

\* `return await apiCall(...)`: every other wrapper returns the result as is.
wrapperResume(w, m, result) ==
    CASE w = "register" -> registerResume(m, result)
      [] w = "login"    -> loginResume(m, result)
      [] OTHER          -> [mem |-> m, ret |-> result]

-----------------------------------------------------------------------------
(* The state machine.                                                      *)

Idle == [st |-> "idle"]

\* What ends the await of a call: a response, or fetch rejecting.
Arrivals ==
    [kind : {"response"}, status : Statuses, body : BodyTexts]
    \cup {[kind |-> "reject", message |-> "Failed to fetch"]}

\* The wrappers with a path parameter, and those with a `data` parameter.
TakesId ==
    { "getHostelDetail", "updateHostel", "getHostelRooms", "updateRoom",
      "getOwnerBookings", "approveBooking", "rejectBooking", "getOwnerIssues",
      "resolveIssue", "getNotices", "getHostelPayments", "getHostelStats" }
TakesData ==
    { "addHostel", "updateHostel", "addRoom", "updateRoom", "bookHostel",
      "approveBooking", "rejectBooking", "reportIssue", "resolveIssue",
      "sendNotice", "makePayment", "recordPayment" }

\* The arguments the page calls wrapper w with, data drawn from D.
ArgsFor(w, D) ==
    [id : IF w \in TakesId THEN {Num(i) : i \in Ids} ELSE {Undefined},
     data : IF w \in TakesData THEN D ELSE {Undefined},
     email : {Str("a@x.com")}, password : {Str("pw")},
     name : {Str("A")}, role : {Str("student")}]

\* What localStorage may hold when the site is first opened: nothing, what
\* an earlier visit stored, one key without the other, or a damaged value.
StoredTokens == {Null, Str(""), Str("T0")}
StoredUsers == {Null, Str(""), Str("{"), JSONstringify(UserA)}

\* The history variable loginGrant: the access token of the latest login that
\* resolved true on this page, for as long as no logoutUser, no 401 and no
\* further login has followed it; `register` tells whether a register has
\* resolved true since.
NoGrant == [token |-> Null, register |-> FALSE]

GrantAfter(fn, arrival, ret, token) ==
    CASE arrival.kind = "response" /\ arrival.status = 401 -> NoGrant
      [] fn = "login" ->
           IF ret = Bool(TRUE) THEN [token |-> token, register |-> FALSE] ELSE NoGrant
      [] fn = "register" /\ ret = Bool(TRUE) /\ loginGrant.token # Null ->
           [loginGrant EXCEPT !.register = TRUE]
      [] OTHER -> loginGrant

InitOn(S, stores, buttons) ==
    /\ authToken = Null
    /\ currentUser = Null
    /\ localStorage \in stores
    /\ href = "/index.html"
    /\ logoutBtn \in buttons
    /\ loaded = FALSE
    /\ calls = [c \in S |-> Idle]
    /\ last = [op |-> "load"]
    /\ loginGrant = NoGrant

\* The memory m becomes the state.
Commit(m) ==
    /\ authToken' = m.authToken
    /\ currentUser' = m.currentUser
    /\ localStorage' = m.localStorage
    /\ href' = m.href
    /\ logoutBtn' = m.logoutBtn

\* No call has settled without its caller having resumed: the caller's
\* continuation is a microtask and runs before the next event is handled.
Quiet == \A c \in DOMAIN calls : calls[c].st # "done"

\* The browser loads a page of the site anew (a reload, or a navigation such
\* as the one line 42 asks for): the script runs again from lines 5-7, the
\* suspended calls of the old page are gone, localStorage is kept.
Reload ==
    /\ Quiet
    /\ authToken' = Null
    /\ currentUser' = Null
    /\ logoutBtn' = IF logoutBtn = Null THEN Null ELSE Str("Logout")
    /\ loaded' = FALSE
    /\ calls' = [c \in DOMAIN calls |-> Idle]
    /\ last' = [op |-> "load"]
    /\ loginGrant' = NoGrant
    /\ UNCHANGED <<localStorage, href>>

\* Line 210: DOMContentLoaded runs initAuth, once per page load.
InitAuth ==
    /\ Quiet
    /\ ~loaded
    /\ LET r == initAuth(Mem)
       IN  /\ Commit(r.mem)
           /\ last' = [op |-> "initAuth", threw |-> r.threw]
    /\ loaded' = TRUE
    /\ UNCHANGED <<calls, loginGrant>>

\* The page calls logoutUser().
LogoutUser ==
    /\ Quiet
    /\ Commit(logoutUser(Mem))
    /\ last' = [op |-> "logoutUser"]
    /\ loginGrant' = NoGrant
    /\ UNCHANGED <<loaded, calls>>

\* The page calls wrapper w with arguments a: the wrapper calls apiCall,
\* which builds the request, hands it to fetch and suspends.
Invoke(c, w, a) ==
    /\ Quiet
    /\ calls[c].st = "idle"
    /\ LET k == WrapperCall(w, a)
       IN  calls' = [calls EXCEPT ![c] =
                        [st |-> "fetch", fn |-> w, args |-> a, fetches |-> 1,
                         request |-> apiCallRequest(Mem, k.endpoint, k.method, k.data)]]
    /\ last' = [op |-> "invoke"]
    /\ UNCHANGED <<authToken, currentUser, localStorage, href, logoutBtn, loaded,
                   loginGrant>>

\* The await of call c ends with `arrival`: apiCall runs to its return and
\* the wrapper that awaits it runs to its own.
Settle(c, arrival) ==
    /\ Quiet
    /\ calls[c].st = "fetch"
    /\ LET r == apiCallResume(Mem, arrival)
           w == wrapperResume(calls[c].fn, r.mem, r.result)
       IN  /\ Commit(w.mem)
           /\ calls' = [calls EXCEPT ![c] =
                           [st |-> "done", fn |-> calls[c].fn, arrival |-> arrival,
                            fetches |-> calls[c].fetches, apiResult |-> r.result,
                            result |-> w.ret, errors |-> r.errors, alerts |-> r.alerts]]
           /\ loginGrant' = GrantAfter(calls[c].fn, arrival, w.ret, w.mem.authToken)
    /\ last' = [op |-> "settle"]
    /\ UNCHANGED loaded

\* The caller of the wrapper resumes with the value it resolved to.
Return(c) ==
    /\ calls[c].st = "done"
    /\ calls' = [calls EXCEPT ![c] = Idle]
    /\ last' = [op |-> "return"]
    /\ UNCHANGED <<authToken, currentUser, localStorage, href, logoutBtn, loaded,
                   loginGrant>>

\* What happens within one load of the page.
NextPage(S, W, D, A) ==
    \/ InitAuth
    \/ LogoutUser
    \/ \E c \in S, w \in W : \E a \in ArgsFor(w, D) : Invoke(c, w, a)
    \/ \E c \in S, arrival \in A : Settle(c, arrival)
    \/ \E c \in S : Return(c)

NextOn(S, W, D, A) ==
    \/ Reload
    \/ NextPage(S, W, D, A)

\* One call at a time, every wrapper, every argument and every response.
Init == InitOn({1}, [access_token : StoredTokens, user : StoredUsers], {Null, Str("Logout")})
Next == NextOn({1}, Wrappers, DataVals, Arrivals)
Spec == Init /\ [][Next]_vars

\* Several calls suspended at once, on the two wrappers that act on the
\* result (register, login) and one that returns it as it is.
ConcWrappers == {"register", "login", "getMyBookings"}
ConcData == {Undefined}
Response(status, body) == [kind |-> "response", status |-> status, body |-> body]
Detail == [t |-> "object", detail |-> Str("x")]
ConcArrivals ==
    {Response(200, JSONstringify(v).v) :
        v \in {AuthBody(Str("T1"), UserA), AuthBody(Str("T2"), UserB),
               AuthBody(Str(""), UserA), Detail}}
    \cup {Response(401, "<html>"), Response(500, "<html>")}
    \cup {Response(status, JSONstringify(v).v) :
            status \in {401, 500}, v \in {AuthBody(Str("T1"), UserA), Detail}}
    \cup {[kind |-> "reject", message |-> "Failed to fetch"]}

InitConc ==
    InitOn(1..MaxInFlight, [access_token : StoredTokens, user : StoredUsers], {Str("Logout")})
NextConc == NextOn(1..MaxInFlight, ConcWrappers, ConcData, ConcArrivals)
SpecConc == InitConc /\ [][NextConc]_vars

\* One load of the page, from a localStorage that holds both keys or
\* neither, with responses that may also grant a token without a user.
PairedStores ==
    { [access_token |-> Null, user |-> Null],
      [access_token |-> Str("T0"), user |-> JSONstringify(UserA)] }
PairedArrivals ==
    {Response(200, JSONstringify(v).v) :
        v \in {AuthBody(Str("T1"), UserA), AuthBody(Str("T2"), UserB),
               [t |-> "object", access |-> Str("T4")], Detail}}
    \cup {Response(401, JSONstringify(Detail).v), Response(401, "<html>"),
          Response(500, JSONstringify(Detail).v)}
    \cup {[kind |-> "reject", message |-> "Failed to fetch"]}
InitPaired == InitOn(1..MaxInFlight, PairedStores, {Str("Logout")})
NextPaired == NextPage(1..MaxInFlight, ConcWrappers, ConcData, PairedArrivals)
SpecPaired == InitPaired /\ [][NextPaired]_vars

-----------------------------------------------------------------------------
(* Vocabulary of the properties.                                           *)

Slots == DOMAIN calls
AuthWrappers == {"register", "login"}
stored == <<authToken, currentUser, localStorage>>

\* The job just done was of this kind (every action records its kind).
Did(op) == last'.op = op

\* Call c has just settled with a response of one of these statuses.
Answered(c, statuses) ==
    /\ calls[c].st = "done"
    /\ calls[c].arrival.kind = "response"
    /\ calls[c].arrival.status \in statuses

\* What response.json() yields for the response of settled call c, if it parses.
Parses(c) == calls[c].arrival.body \in JsonTexts
Parsed(c) == ParseTable[calls[c].arrival.body]

\* Settled call c is a register or login whose 2xx body has a truthy `access`.
Granted(c) ==
    /\ Answered(c, {x \in Statuses : Ok(x)})
    /\ calls[c].fn \in AuthWrappers
    /\ Parses(c)
    /\ Truthy(Prop(Parsed(c), "access"))

\* The user each access token of the model was issued with (T0: the token
\* an earlier visit stored; T4 comes without a user).
IssuedUser ==
    [token \in {"T0", "T1", "T2", "T3", "T4"} |->
        CASE token \in {"T0", "T1"} -> UserA
          [] token = "T2" -> UserB
          [] token = "T3" -> Null
          [] OTHER -> Undefined]

-----------------------------------------------------------------------------
\* C1: whenever a call has settled with HTTP status 401, whatever the body,
\* the session is empty in memory and in localStorage, location.href is
\* '/login.html' and apiCall has resolved to null.
C1_Unauthorized ==
    \A c \in Slots :
        Answered(c, {401}) =>
            /\ authToken = Null /\ currentUser = Null
            /\ localStorage.access_token = Null /\ localStorage.user = Null
            /\ href = "/login.html"
            /\ calls[c].apiResult = Null

\* C2: a 2xx register/login response with access token A and user U leaves A
\* and U in localStorage, and initAuth on a fresh page then completes without
\* error with authToken = A and currentUser = U (null when U is missing).
C2_Stores ==
    \A c \in Slots :
        Granted(c) =>
            /\ localStorage.access_token = Prop(Parsed(c), "access")
            /\ Prop(Parsed(c), "user") # Undefined =>
                   localStorage.user = JSONstringify(Prop(Parsed(c), "user"))
C2_Restores ==
    (Did("initAuth") /\ authToken = Null /\ currentUser = Null
        /\ localStorage.access_token # Null
        /\ localStorage.access_token.v \in DOMAIN IssuedUser \ {"T0"})
    => /\ ~last'.threw
       /\ authToken' = localStorage.access_token
       /\ currentUser' = Default(IssuedUser[localStorage.access_token.v], Null)
C2_LoginSurvivesReload == [][C2_Stores' /\ C2_Restores]_vars

\* C6: the request carries the JSON text of the data a wrapper forwards
\* whenever that data is not null (0, false and '' included), and no body
\* exactly when it is null (or left out, which defaults to null).
C6_BodyIffNotNull ==
    \A c \in Slots :
        (calls[c].st = "fetch" /\ calls[c].fn \in TakesData) =>
            LET data == calls[c].args.data
                options == calls[c].request.options
            IN  IF data \in {Null, Undefined}
                THEN "body" \notin DOMAIN options
                ELSE /\ "body" \in DOMAIN options
                     /\ options.body = JSONstringify(data).v

\* C7: a 2xx response resolves apiCall to the parsed body; any other status
\* but 401 logs once and resolves to null with no alert, no navigation and
\* no change of the session or of localStorage; a result other than null
\* comes from a 2xx response only.
C7_Step ==
    \A c \in Slots :
        (Did("settle") /\ Answered(c, Statuses)') =>
            LET status == calls'[c].arrival.status
                result == calls'[c].apiResult
            IN  /\ (Ok(status) /\ Parses(c)') => result = Parsed(c)'
                /\ (~Ok(status) /\ status # 401) =>
                       /\ result = Null
                       /\ calls'[c].errors = 1
                       /\ calls'[c].alerts = <<>>
                       /\ UNCHANGED <<stored, href>>
                /\ result # Null => Ok(status)
C7_ResultByStatus == [][C7_Step]_vars

\* C8: initAuth on an empty session sets it only when both keys are stored
\* and 'user' is well-formed JSON; with a key absent or a malformed 'user'
\* it leaves authToken = null and currentUser = null.
C8_Step ==
    (Did("initAuth") /\ authToken = Null /\ currentUser = Null) =>
        LET token == localStorage.access_token
            user == localStorage.user
            wellFormed == user # Null /\ user.v \in JsonTexts
        IN  /\ (authToken' # Null \/ currentUser' # Null) => (token # Null /\ wellFormed)
            /\ (token = Null \/ ~wellFormed) => (authToken' = Null /\ currentUser' = Null)
C8_InitAuthAllOrNothing == [][C8_Step]_vars

-----------------------------------------------------------------------------
\* C4 as stated: when fetch rejects, the call raises one alert with the
\* error message, logs once, has made one request, changes neither the
\* session nor localStorage, and apiCall and every wrapper resolve to null.
C4_RejectStep(wrapperResult) ==
    \A c \in Slots :
        (Did("settle") /\ calls'[c].st = "done" /\ calls'[c].arrival.kind = "reject") =>
            /\ calls[c].st = "fetch"
            /\ calls'[c].alerts = <<"Connection error: " \o calls'[c].arrival.message>>
            /\ calls'[c].errors = 1
            /\ calls'[c].fetches = 1
            /\ UNCHANGED <<stored, href>>
            /\ calls'[c].apiResult = Null
            /\ calls'[c].result = wrapperResult[calls'[c].fn]
NullFromAll == [fn \in Wrappers |-> Null]
C4_TransportFailureAllNull == [][C4_RejectStep(NullFromAll)]_vars

\* C4 as amended: the same, but register and login resolve to false, where
\* apiCall and every other wrapper resolve to null.
FalseFromAuth == [fn \in Wrappers |-> IF fn \in AuthWrappers THEN Bool(FALSE) ELSE Null]
C4_TransportFailure == [][C4_RejectStep(FalseFromAuth)]_vars

\* A login has failed at transport level while a session was held.
C4_Witness ==
    \E c \in Slots :
        /\ calls[c].st = "done" /\ calls[c].arrival.kind = "reject"
        /\ calls[c].fn = "login" /\ calls[c].result = Bool(FALSE)
        /\ authToken = Str("T1") /\ localStorage.access_token = Str("T1")

-----------------------------------------------------------------------------
\* The inventory of section 4.3 of the specification: method, path before
\* the id and, for the routes with an id, path after it.
DocRoutes ==
    [register            |-> <<"POST", "/auth/register/">>,
     login               |-> <<"POST", "/auth/login/">>,
     getAllHostels       |-> <<"GET", "/hostels/">>,
     getHostelDetail     |-> <<"GET", "/hostels/", "/">>,
     addHostel           |-> <<"POST", "/hostels/add/">>,
     updateHostel        |-> <<"PUT", "/hostels/", "/update/">>,
     getMyHostels        |-> <<"GET", "/hostels/my/">>,
     getHostelRooms      |-> <<"GET", "/rooms/hostel/", "/">>,
     addRoom             |-> <<"POST", "/rooms/add/">>,
     updateRoom          |-> <<"PUT", "/rooms/", "/update/">>,
     bookHostel          |-> <<"POST", "/bookings/book/">>,
     getMyBookings       |-> <<"GET", "/bookings/my/">>,
     getOwnerBookings    |-> <<"GET", "/bookings/owner/", "/">>,
     approveBooking      |-> <<"POST", "/bookings/", "/approve/">>,
     rejectBooking       |-> <<"POST", "/bookings/", "/reject/">>,
     reportIssue         |-> <<"POST", "/issues/report/">>,
     getOwnerIssues      |-> <<"GET", "/issues/owner/", "/">>,
     resolveIssue        |-> <<"POST", "/issues/", "/resolve/">>,
     sendNotice          |-> <<"POST", "/notices/send/">>,
     getNotices          |-> <<"GET", "/notices/", "/">>,
     getMyPayments       |-> <<"GET", "/payments/my/">>,
     makePayment         |-> <<"POST", "/payments/make/">>,
     recordPayment       |-> <<"POST", "/payments/record/">>,
     getHostelPayments   |-> <<"GET", "/payments/hostel/", "/">>,
     getStudentDashboard |-> <<"GET", "/dashboard/student/">>,
     getOwnerDashboard   |-> <<"GET", "/dashboard/owner/">>,
     getHostelStats      |-> <<"GET", "/analytics/hostel/", "/">>]

DocPath(route, id) ==
    IF Len(route) = 3 THEN route[2] \o ToString(id.v) \o route[3] ELSE route[2]

\* C5: each of the 27 wrappers issues exactly one request, with the method
\* and to '/api' + the path of the inventory, the id argument interpolated,
\* whatever the response.
C5_OneDocumentedRequest ==
    /\ Cardinality(Wrappers) = 27
    /\ DOMAIN DocRoutes = Wrappers
    /\ \A c \in Slots :
        /\ calls[c].st = "fetch" =>
               LET route == DocRoutes[calls[c].fn]
               IN  /\ calls[c].request.options.method = route[1]
                   /\ calls[c].request.url = "/api" \o DocPath(route, calls[c].args.id)
                   /\ calls[c].fetches = 1
        /\ calls[c].st = "done" => calls[c].fetches = 1

\* updateRoom(2, data) has been answered 500 after its one PUT.
C5_Witness ==
    \E c \in Slots :
        /\ Answered(c, {500})
        /\ calls[c].fn = "updateRoom"
        /\ calls[c].fetches = 1

-----------------------------------------------------------------------------
\* Call c is handed to fetch in this step.
Issued(c) == calls[c].st = "idle" /\ calls'[c].st = "fetch"

\* The headers of a request sent while `token` is held.
HeadersWith(token) ==
    IF token = Null
    THEN "Content-Type" :> "application/json"
    ELSE ("Content-Type" :> "application/json") @@ ("Authorization" :> ("Bearer " \o token.v))

\* A request carries no Authorization header when authToken is null at the
\* call, and 'Bearer ' + authToken otherwise.
C3_HeaderFollowsToken ==
    \A c \in Slots :
        Issued(c) =>
            /\ authToken = Null \/ authToken.t = "string"
            /\ calls'[c].request.options.headers = HeadersWith(authToken)

\* A request in flight is not altered by what happens to the session.
C3_SentIsSent ==
    \A c \in Slots :
        (calls[c].st = "fetch" /\ calls'[c].st = "fetch") =>
            calls'[c].request = calls[c].request

\* getMyBookings() called while login's token T1 is granted sends
\* GET /api/bookings/my/ with 'Bearer T1' and no body.
C3_NextCallCarries(granted) ==
    \A c \in Slots :
        (Issued(c) /\ calls'[c].fn = "getMyBookings" /\ granted) =>
            calls'[c].request =
                [url |-> "/api/bookings/my/",
                 options |-> [method |-> "GET", headers |-> HeadersWith(loginGrant.token)]]

\* C3 as stated: the grant ends with a logoutUser, a 401 or a further login.
C3_BearerAsStated ==
    [][/\ C3_HeaderFollowsToken
       /\ C3_SentIsSent
       /\ C3_NextCallCarries(loginGrant.token # Null)]_vars

\* C3 as amended: the grant also ends when a register resolves true.
C3_Bearer ==
    [][/\ C3_HeaderFollowsToken
       /\ C3_SentIsSent
       /\ C3_NextCallCarries(loginGrant.token # Null /\ ~loginGrant.register)]_vars

\* getMyBookings() went out with login's token T1, and the session has been
\* cleared while it is in flight.
C3_Witness ==
    \E c \in Slots :
        /\ calls[c].st = "fetch" /\ calls[c].fn = "getMyBookings"
        /\ calls[c].request.options.headers = HeadersWith(Str("T1"))
        /\ authToken = Null
        /\ loaded

-----------------------------------------------------------------------------
\* The kinds of step C9 tells apart.
GrantStep == Did("settle") /\ \E c \in Slots : Granted(c)'
UnauthorizedStep == Did("settle") /\ \E c \in Slots : Answered(c, {401})'
StartupStep == Did("load") \/ Did("initAuth")

WritesValue ==
    \/ authToken' # authToken /\ authToken' # Null
    \/ currentUser' # currentUser /\ currentUser' # Null
    \/ \E key \in DOMAIN localStorage :
           localStorage'[key] # localStorage[key] /\ localStorage'[key] # Null

Clears ==
    \/ authToken' # authToken /\ authToken' = Null
    \/ \E key \in DOMAIN localStorage :
           localStorage'[key] # localStorage[key] /\ localStorage'[key] = Null

\* C9: once the page has started, the session and the persisted keys get a
\* value only in the step that handles a 2xx register/login response with a
\* truthy `access`, are cleared only by logoutUser or by the step that
\* handles a 401, change in no other step, and a register/login that was
\* not granted resolves to false.
C9_Step ==
    /\ WritesValue => (GrantStep \/ Did("initAuth"))
    /\ Clears => (Did("logoutUser") \/ UnauthorizedStep \/ Did("load"))
    /\ stored' # stored =>
           (GrantStep \/ Did("logoutUser") \/ UnauthorizedStep \/ StartupStep)
    /\ \A c \in Slots :
           (Did("settle") /\ calls'[c].st = "done" /\ calls'[c].fn \in AuthWrappers
               /\ ~Granted(c)') => calls'[c].result = Bool(FALSE)
C9_SessionWrittenOnlyByAuth == [][C9_Step]_vars

\* A login answered 200 without `access` has resolved false and left the
\* session of an earlier login in place, while another call is in flight.
C9_Witness ==
    \E c, d \in Slots :
        /\ Answered(c, {200}) /\ calls[c].fn = "login"
        /\ calls[c].arrival.body = JSONstringify(Detail).v
        /\ calls[c].result = Bool(FALSE)
        /\ authToken = Str("T1") /\ localStorage.access_token = Str("T1")
        /\ calls[d].st = "fetch"

-----------------------------------------------------------------------------
\* C10: from a localStorage holding both keys or neither, once initAuth has
\* run the session in memory and the persisted one agree: both empty, or the
\* same token with the user that token was issued with, the persisted user
\* being what setItem keeps of the serialised user in memory.
C10_SessionAgrees ==
    loaded =>
        IF authToken = Null
        THEN /\ currentUser = Null
             /\ localStorage.access_token = Null
             /\ localStorage.user = Null
        ELSE /\ localStorage.access_token = authToken
             /\ authToken.v \in DOMAIN IssuedUser
             /\ currentUser = IssuedUser[authToken.v]
             /\ localStorage.user = Str(ToStr(JSONstringify(currentUser)))

\* A 401 has cleared the session that held T2 while a login sent under T2
\* is still in flight.
C10_Witness ==
    \E c, d \in Slots :
        /\ loaded
        /\ Answered(c, {401}) /\ Parses(c)
        /\ authToken = Null /\ localStorage.access_token = Null
        /\ calls[d].st = "fetch" /\ calls[d].fn = "login"
        /\ calls[d].request.options.headers = HeadersWith(Str("T2"))

====
